---- MODULE Spec2Model ----
(***************************************************************************)
(* ProxyExecutor (src/python/native/proxy_executor.cpp): the bridge that   *)
(* forwards the executor driver's callbacks to a Python executor object.   *)
(* Every callback is modelled as the sequence of steps of its body; a      *)
(* thread's frame holds the callback's locals.                             *)
(***************************************************************************)
EXTENDS Integers, Sequences, FiniteSets, TLC

\* Number of native threads that may deliver callbacks.
NumThreads == 2

\* Longest byte payload of frameworkMessage / error.
MaxLen == 3

\* The count of handler invocations is kept up to this many.
MaxInvocations == 2

Threads == 1..NumThreads

Bytes == {0, 65}

Payloads == UNION {[1..n -> Bytes] : n \in 0..MaxLen}

\* The eight callbacks of ProxyExecutor.
Events ==
  {"registered", "reregistered", "disconnected", "launchTask",
   "killTask", "frameworkMessage", "shutdown", "error"}

ByteEvents == {"frameworkMessage", "error"}

\* Variant: registered passes the framework before the executor.
ArgSlotsSwapped(e) ==
  CASE e = "registered"   -> <<"frameworkInfoObj", "executorInfoObj", "slaveInfoObj">>
    [] e = "reregistered" -> <<"slaveInfoObj">>
    [] e = "launchTask"   -> <<"taskObj">>
    [] e = "killTask"     -> <<"taskIdObj">>
    [] OTHER              -> <<>>

\* The PyObject* locals a callback declares for its marshalled arguments,
\* in the order they are marshalled and passed.
ArgSlots(e) ==
  CASE e = "registered"   -> <<"executorInfoObj", "frameworkInfoObj", "slaveInfoObj">>
    [] e = "reregistered" -> <<"slaveInfoObj">>
    [] e = "launchTask"   -> <<"taskObj">>
    [] e = "killTask"     -> <<"taskIdObj">>
    [] OTHER              -> <<>>

\* The type name handed to createPythonProtobuf for each local.
KindOf(s) ==
  CASE s = "executorInfoObj"  -> "ExecutorInfo"
    [] s = "frameworkInfoObj" -> "FrameworkInfo"
    [] s = "slaveInfoObj"     -> "SlaveInfo"
    [] s = "taskObj"          -> "TaskInfo"
    [] s = "taskIdObj"        -> "TaskID"
    [] OTHER                  -> "NULL"

AllSlots ==
  {"executorInfoObj", "frameworkInfoObj", "slaveInfoObj", "taskObj", "taskIdObj", "res"}

SlotSet(e) == {ArgSlots(e)[i] : i \in 1..Len(ArgSlots(e))}

\* Variant: Py_XDECREF(res) is missing.
LocalsNoRes(e) == SlotSet(e)

\* The locals a callback releases with Py_XDECREF at its cleanup label.

Locals(e) == SlotSet(e) \cup {"res"}

\* createPythonProtobuf either returns an object or returns NULL with an
\* exception set.
MarshalOutcomes == {"ok", "fail"}

\* How a handler call that found its method can end. The callbacks test
\* res == NULL and PyErr_Occurred() separately, so the four combinations
\* of result and error indicator are kept apart: a result, an exception
\* with no result, a result with the indicator set, no result with the
\* indicator clear.
HandlerOutcomes == {"ok", "raises", "resultWithError", "nullNoError"}

\* The method name each callback hands to PyObject_CallMethod.
MethodName(e) ==
  CASE e = "registered"       -> "registered"
    [] e = "reregistered"     -> "reregistered"
    [] e = "disconnected"     -> "disconnected"
    [] e = "launchTask"       -> "launchTask"
    [] e = "killTask"         -> "killTask"
    [] e = "frameworkMessage" -> "frameworkMessage"
    [] e = "shutdown"         -> "shutdown"
    [] e = "error"            -> "error"

\* The format string each callback hands to PyObject_CallMethod, as the
\* sequence of its units.
Format(e) ==
  CASE e = "registered"       -> <<"O", "O", "O", "O">>
    [] e = "reregistered"     -> <<"O", "O">>
    [] e = "disconnected"     -> <<"O">>
    [] e = "launchTask"       -> <<"O", "O">>
    [] e = "killTask"         -> <<"O", "O">>
    [] e = "frameworkMessage" -> <<"O", "s#">>
    [] e = "shutdown"         -> <<"O">>
    [] e = "error"            -> <<"O", "s#">>

NoCall == [method |-> "none", self |-> "none", target |-> "none",
           fmt |-> <<>>, objs |-> <<>>, bytes |-> <<>>]

NullLocals == [s \in AllSlots |-> "NULL"]

VARIABLES
  impl,            \* ProxyExecutor::impl, passed to the handler as self
  pythonExecutor,  \* impl->pythonExecutor, the handler object
  driverStatus,    \* the driver: "RUNNING" until abort() is called
  lockOwner,       \* the thread inside the interpreter, 0 when none
  heap,            \* live per-call Python objects, as <<thread, local>>
  pending,         \* per thread: the interpreter's error indicator
  pc,              \* per thread: position in the callback
  ev,              \* per thread: the callback being run
  local,           \* per thread: the PyObject* locals
  attempted,       \* per thread: type names given to createPythonProtobuf
  calls,           \* per thread: PyObject_CallMethod calls of this callback
  received,        \* per thread: what the handler method was invoked with
  outcome,         \* per thread: how the handler call ended
  data,            \* per thread: the native byte payload
  cerrLog,         \* per thread: "Failed to call ..." was written to cerr
  reported,        \* per thread: PyErr_Print calls of this callback
  aborts,          \* per thread: driver->abort() calls of this callback
  selfSeen,        \* every self argument any handler invocation received
  invocations      \* handler invocations so far, counted up to MaxInvocations

frame == <<ev, local, attempted, calls, received, outcome, data, cerrLog,
           reported, aborts>>

bridge == <<impl, pythonExecutor>>

vars == <<impl, pythonExecutor, driverStatus, lockOwner, heap, pending, pc,
          ev, local, attempted, calls, received, outcome, data, cerrLog,
          reported, aborts, selfSeen, invocations>>

history == <<selfSeen, invocations>>

Init ==
  /\ impl = "impl"
  /\ pythonExecutor = "pythonExecutor"
  /\ driverStatus = "RUNNING"
  /\ lockOwner = 0
  /\ heap = {}
  /\ pending = [t \in Threads |-> FALSE]
  /\ pc = [t \in Threads |-> "idle"]
  /\ ev = [t \in Threads |-> "none"]
  /\ local = [t \in Threads |-> NullLocals]
  /\ attempted = [t \in Threads |-> <<>>]
  /\ calls = [t \in Threads |-> 0]
  /\ received = [t \in Threads |-> NoCall]
  /\ outcome = [t \in Threads |-> "none"]
  /\ data = [t \in Threads |-> <<>>]
  /\ cerrLog = [t \in Threads |-> FALSE]
  /\ reported = [t \in Threads |-> 0]
  /\ aborts = [t \in Threads |-> 0]
  /\ selfSeen = {}
  /\ invocations = 0

----------------------------------------------------------------------------
\* InterpreterLock: the scoped guard every callback declares first.

\* Constructor: blocks until no other thread is inside the interpreter.
InterpreterLock(t) ==
  /\ lockOwner = 0
  /\ lockOwner' = t

\* Destructor, run when the callback's scope ends.
InterpreterLockRelease(t) ==
  lockOwner' = IF lockOwner = t THEN 0 ELSE lockOwner

\* createPythonProtobuf(record, typeName): the object, or NULL.
createPythonProtobuf(kind, o) == IF o = "ok" THEN kind ELSE "NULL"

\* Variant: the "s" format unit, which reads up to the first zero byte.
BuildBytesCString(d, n) ==
  LET zeros == {i \in 1..n : d[i] = 0}
      stop == IF zeros = {} THEN n
              ELSE (CHOOSE i \in zeros : \A j \in zeros : i <= j) - 1
  IN [i \in 1..stop |-> d[i]]

\* The "s#" format unit: a byte string of exactly n bytes starting at d.
BuildBytes(d, n) == [i \in 1..n |-> d[i]]

\* Variant: shutdown, like error, does not abort.
AbortsExceptShutdown(e) == e \notin {"error", "shutdown"}

\* Variant: error aborts like every other callback.
AbortsAlways(e) == TRUE

\* Which callbacks call driver->abort() when an exception is pending.
AbortsOnFailure(e) == e # "error"

\* Variant: the handler is called whatever the marshalling returned.
AfterMarshalNoCheck(made, slots) == "call"

\* "if (xObj == NULL || ...) goto cleanup;" after the marshalling calls.
AfterMarshal(made, slots) ==
  IF \E i \in 1..Len(slots) : made[slots[i]] = "NULL" THEN "cleanup" ELSE "call"

\* Variant: error passes the driver pointer where impl belongs.
SelfArgDriver(e) == IF e = "error" THEN "driver" ELSE impl

\* The first argument of every PyObject_CallMethod call: impl.

SelfArg(e) == impl

----------------------------------------------------------------------------
\* Variant: the bridge remembers an abort and takes no further callback.
EnterIfRunning(t, e) ==
  /\ pc[t] = "idle"
  /\ driverStatus = "RUNNING"
  /\ pc' = [pc EXCEPT ![t] = "lock"]
  /\ ev' = [ev EXCEPT ![t] = e]
  /\ UNCHANGED <<bridge, driverStatus, lockOwner, heap, pending, local,
                 attempted, calls, received, outcome, data, cerrLog,
                 reported, aborts, history>>

\* The driver calls a callback on thread t.
Enter(t, e) ==
  /\ pc[t] = "idle"
  /\ pc' = [pc EXCEPT ![t] = "lock"]
  /\ ev' = [ev EXCEPT ![t] = e]
  /\ UNCHANGED <<bridge, driverStatus, lockOwner, heap, pending, local,
                 attempted, calls, received, outcome, data, cerrLog,
                 reported, aborts, history>>

registered(t) == Enter(t, "registered")

reregistered(t) == Enter(t, "reregistered")

disconnected(t) == Enter(t, "disconnected")

launchTask(t) == Enter(t, "launchTask")

killTask(t) == Enter(t, "killTask")

frameworkMessage(t) == Enter(t, "frameworkMessage")

shutdown(t) == Enter(t, "shutdown")

error(t) == Enter(t, "error")

\* Variant: the callback enters the interpreter without waiting for the lock.
AcquireNoLock(t) ==
  /\ pc[t] = "lock"
  /\ lockOwner' = t
  /\ local' = [local EXCEPT ![t] = NullLocals]
  /\ pc' = [pc EXCEPT ![t] = IF ArgSlots(ev[t]) = <<>> THEN "call" ELSE "marshal"]
  /\ UNCHANGED <<bridge, driverStatus, heap, pending, ev, attempted, calls,
                 received, outcome, data, cerrLog, reported, aborts, history>>

\* "InterpreterLock lock;" and the locals initialised to NULL.
Acquire(t) ==
  /\ pc[t] = "lock"
  /\ InterpreterLock(t)
  /\ local' = [local EXCEPT ![t] = NullLocals]
  /\ pc' = [pc EXCEPT ![t] = IF ArgSlots(ev[t]) = <<>> THEN "call" ELSE "marshal"]
  /\ UNCHANGED <<bridge, driverStatus, heap, pending, ev, attempted, calls,
                 received, outcome, data, cerrLog, reported, aborts, history>>

\* The createPythonProtobuf calls of the callback, all of them, followed by
\* the NULL test that jumps to cleanup.
Marshal(t) ==
  /\ pc[t] = "marshal"
  /\ LET slots == ArgSlots(ev[t])
         n == Len(slots)
     IN \E os \in [1..n -> MarshalOutcomes] :
          LET made == [s \in AllSlots |->
                        IF \E i \in 1..n : slots[i] = s
                        THEN createPythonProtobuf(
                               KindOf(s), os[CHOOSE i \in 1..n : slots[i] = s])
                        ELSE local[t][s]]
          IN /\ local' = [local EXCEPT ![t] = made]
             /\ heap' = heap \cup {<<t, slots[i]>> : i \in {j \in 1..n : os[j] = "ok"}}
             /\ pending' = [pending EXCEPT ![t] = @ \/ (\E i \in 1..n : os[i] = "fail")]
             /\ attempted' = [attempted EXCEPT ![t] = [i \in 1..n |-> KindOf(slots[i])]]
             /\ pc' = [pc EXCEPT ![t] = AfterMarshal(made, slots)]
  /\ UNCHANGED <<bridge, driverStatus, lockOwner, ev, calls, received, outcome,
                 data, cerrLog, reported, aborts, history>>

\* PyObject_CallMethod(impl->pythonExecutor, name, format, impl, args...):
\* the method is looked up; when it is missing the call returns NULL with
\* an exception set, otherwise the handler method starts running.
CallMethod(t) ==
  /\ pc[t] = "call"
  /\ \E d \in (IF ev[t] \in ByteEvents THEN Payloads ELSE {<<>>}), found \in BOOLEAN :
       /\ data' = [data EXCEPT ![t] = d]
       /\ calls' = [calls EXCEPT ![t] = @ + 1]
       /\ IF found
          THEN /\ received' = [received EXCEPT ![t] =
                    [method |-> MethodName(ev[t]),
                     self   |-> SelfArg(ev[t]),
                     target |-> pythonExecutor,
                     fmt    |-> Format(ev[t]),
                     objs   |-> [i \in 1..Len(ArgSlots(ev[t])) |->
                                   local[t][ArgSlots(ev[t])[i]]],
                     bytes  |-> BuildBytes(d, Len(d))]]
               /\ selfSeen' = selfSeen \cup {SelfArg(ev[t])}
               /\ invocations' = IF invocations < MaxInvocations
                                 THEN invocations + 1 ELSE invocations
               /\ pc' = [pc EXCEPT ![t] = "handler"]
               /\ UNCHANGED <<pending, outcome, cerrLog>>
          ELSE /\ pending' = [pending EXCEPT ![t] = TRUE]
               /\ outcome' = [outcome EXCEPT ![t] = "absent"]
               /\ cerrLog' = [cerrLog EXCEPT ![t] = TRUE]
               /\ pc' = [pc EXCEPT ![t] = "cleanup"]
               /\ UNCHANGED <<received, history>>
  /\ UNCHANGED <<bridge, driverStatus, lockOwner, heap, ev, local, attempted,
                 reported, aborts>>

\* Variant: a handler that raised is called again.
HandlerReturnRetry(t) ==
  /\ pc[t] = "handler"
  /\ \E o \in HandlerOutcomes :
       LET hasRes == o \in {"ok", "resultWithError"}
           hasErr == o \in {"raises", "resultWithError"}
       IN /\ outcome' = [outcome EXCEPT ![t] = o]
          /\ local' = [local EXCEPT ![t]["res"] = IF hasRes THEN "obj" ELSE "NULL"]
          /\ heap' = IF hasRes THEN heap \cup {<<t, "res">>} ELSE heap
          /\ pending' = [pending EXCEPT ![t] = @ \/ (hasErr /\ o # "raises")]
          /\ cerrLog' = [cerrLog EXCEPT ![t] = ~hasRes]
          /\ pc' = [pc EXCEPT ![t] = IF o = "raises" THEN "call" ELSE "cleanup"]
  /\ UNCHANGED <<bridge, driverStatus, lockOwner, ev, attempted, calls, received,
                 data, reported, aborts, history>>

\* The handler method returns; "if (res == NULL) { cerr << ...; goto cleanup; }".
HandlerReturn(t) ==
  /\ pc[t] = "handler"
  /\ \E o \in HandlerOutcomes :
       LET hasRes == o \in {"ok", "resultWithError"}
           hasErr == o \in {"raises", "resultWithError"}
       IN /\ outcome' = [outcome EXCEPT ![t] = o]
          /\ local' = [local EXCEPT ![t]["res"] = IF hasRes THEN "obj" ELSE "NULL"]
          /\ heap' = IF hasRes THEN heap \cup {<<t, "res">>} ELSE heap
          /\ pending' = [pending EXCEPT ![t] = @ \/ hasErr]
          /\ cerrLog' = [cerrLog EXCEPT ![t] = ~hasRes]
  /\ pc' = [pc EXCEPT ![t] = "cleanup"]
  /\ UNCHANGED <<bridge, driverStatus, lockOwner, ev, attempted, calls, received,
                 data, reported, aborts, history>>

\* Variant: abort() is called before the pending exception is printed.
CleanupAbortFirst(t) ==
  /\ pc[t] = "cleanup"
  /\ pc' = [pc EXCEPT ![t] = IF pending[t] /\ AbortsOnFailure(ev[t])
                             THEN "abort" ELSE "release"]
  /\ IF pending[t] /\ ~AbortsOnFailure(ev[t])
     THEN /\ reported' = [reported EXCEPT ![t] = @ + 1]
          /\ pending' = [pending EXCEPT ![t] = FALSE]
     ELSE UNCHANGED <<reported, pending>>
  /\ UNCHANGED <<bridge, driverStatus, lockOwner, heap, ev, local, attempted,
                 calls, received, outcome, data, cerrLog, aborts, history>>

\* Variant: the pending exception is cleared (PyErr_Clear) instead of printed.
CleanupClearOnly(t) ==
  /\ pc[t] = "cleanup"
  /\ pending' = [pending EXCEPT ![t] = FALSE]
  /\ pc' = [pc EXCEPT ![t] = IF pending[t] /\ AbortsOnFailure(ev[t])
                             THEN "abort" ELSE "release"]
  /\ UNCHANGED <<bridge, driverStatus, lockOwner, heap, ev, local, attempted,
                 calls, received, outcome, data, cerrLog, reported, aborts,
                 history>>

\* Variant: the locals are released before abort() is called.
CleanupReleaseFirst(t) ==
  /\ pc[t] = "cleanup"
  /\ IF pending[t]
     THEN /\ reported' = [reported EXCEPT ![t] = @ + 1]
          /\ pending' = [pending EXCEPT ![t] = FALSE]
          /\ heap' = heap \ {<<t, s>> : s \in Locals(ev[t])}
          /\ pc' = [pc EXCEPT ![t] = IF AbortsOnFailure(ev[t])
                                     THEN "abort" ELSE "release"]
     ELSE /\ pc' = [pc EXCEPT ![t] = "release"]
          /\ UNCHANGED <<reported, pending, heap>>
  /\ UNCHANGED <<bridge, driverStatus, lockOwner, ev, local, attempted,
                 calls, received, outcome, data, cerrLog, aborts, history>>

\* Variant: every callback but error aborts, exception pending or not.
CleanupAlwaysAbort(t) ==
  /\ pc[t] = "cleanup"
  /\ IF pending[t]
     THEN /\ reported' = [reported EXCEPT ![t] = @ + 1]
          /\ pending' = [pending EXCEPT ![t] = FALSE]
     ELSE UNCHANGED <<reported, pending>>
  /\ pc' = [pc EXCEPT ![t] = IF AbortsOnFailure(ev[t]) THEN "abort" ELSE "release"]
  /\ UNCHANGED <<bridge, driverStatus, lockOwner, heap, ev, local, attempted,
                 calls, received, outcome, data, cerrLog, aborts, history>>

\* Variant: abort() is decided by res == NULL, not by the pending exception.
CleanupAbortOnNullResult(t) ==
  /\ pc[t] = "cleanup"
  /\ IF pending[t]
     THEN /\ reported' = [reported EXCEPT ![t] = @ + 1]
          /\ pending' = [pending EXCEPT ![t] = FALSE]
     ELSE UNCHANGED <<reported, pending>>
  /\ pc' = [pc EXCEPT ![t] = IF local[t]["res"] = "NULL" /\ AbortsOnFailure(ev[t])
                             THEN "abort" ELSE "release"]
  /\ UNCHANGED <<bridge, driverStatus, lockOwner, heap, ev, local, attempted,
                 calls, received, outcome, data, cerrLog, aborts, history>>

\* cleanup: "if (PyErr_Occurred()) { PyErr_Print(); ..." - the pending
\* exception is printed, which clears it; every callback but error then
\* goes on to driver->abort().
Cleanup(t) ==
  /\ pc[t] = "cleanup"
  /\ IF pending[t]
     THEN /\ reported' = [reported EXCEPT ![t] = @ + 1]
          /\ pending' = [pending EXCEPT ![t] = FALSE]
          /\ pc' = [pc EXCEPT ![t] = IF AbortsOnFailure(ev[t])
                                     THEN "abort" ELSE "release"]
     ELSE /\ pc' = [pc EXCEPT ![t] = "release"]
          /\ UNCHANGED <<reported, pending>>
  /\ UNCHANGED <<bridge, driverStatus, lockOwner, heap, ev, local, attempted,
                 calls, received, outcome, data, cerrLog, aborts, history>>

\* Variant: the interpreter is left before driver->abort() is called.
AbortOutsideLock(t) ==
  /\ pc[t] = "abort"
  /\ lockOwner' = 0
  /\ aborts' = [aborts EXCEPT ![t] = @ + 1]
  /\ driverStatus' = "ABORTED"
  /\ pc' = [pc EXCEPT ![t] = "release"]
  /\ UNCHANGED <<bridge, heap, pending, ev, local, attempted, calls,
                 received, outcome, data, cerrLog, reported, history>>

\* "driver->abort();"
Abort(t) ==
  /\ pc[t] = "abort"
  /\ aborts' = [aborts EXCEPT ![t] = @ + 1]
  /\ driverStatus' = "ABORTED"
  /\ pc' = [pc EXCEPT ![t] = "release"]
  /\ UNCHANGED <<bridge, lockOwner, heap, pending, ev, local, attempted, calls,
                 received, outcome, data, cerrLog, reported, history>>

\* The Py_XDECREF calls that end the callback: one per local, NULL skipped.
Release(t) ==
  /\ pc[t] = "release"
  /\ heap' = heap \ {<<t, s>> : s \in {x \in Locals(ev[t]) : local[t][x] # "NULL"}}
  /\ pc' = [pc EXCEPT ![t] = "exit"]
  /\ UNCHANGED <<bridge, driverStatus, lockOwner, pending, ev, local, attempted,
                 calls, received, outcome, data, cerrLog, reported, aborts,
                 history>>

\* Variant: the lock is released by hand on the path that did not abort only.
ReturnKeepLock(t) ==
  /\ pc[t] = "exit"
  /\ lockOwner' = IF aborts[t] = 0 THEN 0 ELSE lockOwner
  /\ pc' = [pc EXCEPT ![t] = "idle"]
  /\ ev' = [ev EXCEPT ![t] = "none"]
  /\ local' = [local EXCEPT ![t] = NullLocals]
  /\ attempted' = [attempted EXCEPT ![t] = <<>>]
  /\ calls' = [calls EXCEPT ![t] = 0]
  /\ received' = [received EXCEPT ![t] = NoCall]
  /\ outcome' = [outcome EXCEPT ![t] = "none"]
  /\ data' = [data EXCEPT ![t] = <<>>]
  /\ cerrLog' = [cerrLog EXCEPT ![t] = FALSE]
  /\ reported' = [reported EXCEPT ![t] = 0]
  /\ aborts' = [aborts EXCEPT ![t] = 0]
  /\ UNCHANGED <<bridge, driverStatus, heap, pending, history>>

\* The closing brace: the lock's destructor runs and the frame is gone.
Return(t) ==
  /\ pc[t] = "exit"
  /\ InterpreterLockRelease(t)
  /\ pc' = [pc EXCEPT ![t] = "idle"]
  /\ ev' = [ev EXCEPT ![t] = "none"]
  /\ local' = [local EXCEPT ![t] = NullLocals]
  /\ attempted' = [attempted EXCEPT ![t] = <<>>]
  /\ calls' = [calls EXCEPT ![t] = 0]
  /\ received' = [received EXCEPT ![t] = NoCall]
  /\ outcome' = [outcome EXCEPT ![t] = "none"]
  /\ data' = [data EXCEPT ![t] = <<>>]
  /\ cerrLog' = [cerrLog EXCEPT ![t] = FALSE]
  /\ reported' = [reported EXCEPT ![t] = 0]
  /\ aborts' = [aborts EXCEPT ![t] = 0]
  /\ UNCHANGED <<bridge, driverStatus, heap, pending, history>>

Next ==
  \E t \in Threads :
    \/ registered(t)
    \/ reregistered(t)
    \/ disconnected(t)
    \/ launchTask(t)
    \/ killTask(t)
    \/ frameworkMessage(t)
    \/ shutdown(t)
    \/ error(t)
    \/ Acquire(t)
    \/ Marshal(t)
    \/ CallMethod(t)
    \/ HandlerReturn(t)
    \/ Cleanup(t)
    \/ Abort(t)
    \/ Release(t)
    \/ Return(t)

Spec == Init /\ [][Next]_vars

\* The statements of a callback body after the lock was acquired. The body
\* is straight-line code run by its thread, and the marshaller and the
\* handler are taken to return.
Body(t) ==
  \/ Marshal(t)
  \/ CallMethod(t)
  \/ HandlerReturn(t)
  \/ Cleanup(t)
  \/ Abort(t)
  \/ Release(t)
  \/ Return(t)

\* A thread inside a callback body keeps running it.
FairSpec == Spec /\ \A t \in Threads : WF_vars(Body(t))

----------------------------------------------------------------------------
\* Vocabulary of the properties.

\* Thread t is inside a callback body, past the lock's constructor.
InCallback(t) == pc[t] \notin {"idle", "lock"}

\* The live per-call objects that belong to thread t's callback.
HeldBy(t) == {h \in heap : h[1] = t}

\* The objects thread t's callback holds a non-NULL local for.
Created(t) == {<<t, s>> : s \in {x \in Locals(ev[t]) : local[t][x] # "NULL"}}

\* Marshalling is over and at least one createPythonProtobuf returned NULL.
MarshalFailed(t) ==
  /\ pc[t] \notin {"idle", "lock", "marshal"}
  /\ \E s \in SlotSet(ev[t]) : local[t][s] = "NULL"

\* The error indicator was set at some point of thread t's callback.
FailureRaised(t) ==
  MarshalFailed(t) \/ outcome[t] \in {"absent", "raises", "resultWithError"}

----------------------------------------------------------------------------
\* C1: in every callback but error, when the handler method is absent or
\* raises, PyObject_CallMethod is called once and never again, abort() is
\* never called more than once, and by the end of the callback it has been
\* called exactly once.
C1_AbortOnceOnHandlerFailure ==
  \A t \in Threads :
    (ev[t] \in Events \ {"error"} /\ outcome[t] \in {"absent", "raises"}) =>
      /\ calls[t] = 1
      /\ aborts[t] <= 1
      /\ pc[t] = "exit" => aborts[t] = 1

C1_Witness ==
  \E t \in Threads :
    /\ pc[t] = "exit"
    /\ ev[t] = "shutdown"
    /\ outcome[t] = "absent"
    /\ calls[t] = 1
    /\ aborts[t] = 1

\* C2: the error callback never calls abort(), whether the handler method
\* is absent, raises or succeeds; a pending failure is still printed once
\* and cleared by the end of the callback.
C2_ErrorNeverAborts ==
  \A t \in Threads :
    ev[t] = "error" =>
      /\ aborts[t] = 0
      /\ pc[t] # "abort"
      /\ pc[t] = "exit" =>
           /\ ~pending[t]
           /\ outcome[t] \in {"absent", "raises", "resultWithError"} => reported[t] = 1

C2_Witness ==
  \E t \in Threads :
    /\ pc[t] = "exit"
    /\ ev[t] = "error"
    /\ outcome[t] = "absent"
    /\ reported[t] = 1
    /\ aborts[t] = 0
    /\ ~pending[t]

\* C3: in registered, reregistered, launchTask and killTask, when an
\* argument fails to marshal the handler method is never called, and by
\* the end of the callback the pending failure has been printed and
\* cleared and abort() has been called.
C3_MarshalFailureSkipsHandler ==
  \A t \in Threads :
    MarshalFailed(t) =>
      /\ calls[t] = 0
      /\ received[t] = NoCall
      /\ pc[t] \notin {"call", "handler"}
      /\ pc[t] = "exit" => (aborts[t] = 1 /\ reported[t] = 1 /\ ~pending[t])

C3_Witness ==
  \E t \in Threads :
    /\ pc[t] = "exit"
    /\ ev[t] = "launchTask"
    /\ local[t]["taskObj"] = "NULL"
    /\ calls[t] = 0
    /\ aborts[t] = 1
    /\ reported[t] = 1

\* C4: when a callback is about to return, and whenever a thread is outside
\* a callback, none of the objects created for its call is live: every
\* marshalled argument and the handler's result have been released, on
\* every path, also when only some of registered's three arguments
\* marshalled.
C4_NoPerCallObjectSurvives ==
  /\ \A t \in Threads : pc[t] \in {"idle", "lock", "exit"} => HeldBy(t) = {}
  /\ (\A t \in Threads : pc[t] = "idle") => heap = {}

C4_Witness ==
  \E t \in Threads :
    /\ pc[t] = "exit"
    /\ ev[t] = "registered"
    /\ local[t]["executorInfoObj"] = "NULL"
    /\ local[t]["frameworkInfoObj"] # "NULL"
    /\ local[t]["slaveInfoObj"] # "NULL"
    /\ HeldBy(t) = {}

\* C5: at most one thread is between acquiring and releasing the lock, so
\* no two handler invocations overlap: while one callback is inside its
\* body every other delivered callback is still waiting for the lock.
C5_CallbacksDoNotOverlap ==
  \A t1, t2 \in Threads : (InCallback(t1) /\ InCallback(t2)) => t1 = t2

C5_Witness ==
  \E t1, t2 \in Threads :
    /\ t1 # t2
    /\ pc[t1] = "handler"
    /\ ev[t1] = "registered"
    /\ pc[t2] = "lock"
    /\ ev[t2] = "launchTask"

\* C6: a thread inside a callback body holds the lock (it was acquired
\* before any marshalling or handler call), a thread outside one does not,
\* and when every callback has returned the lock is free.
C6_LockHeldExactlyInsideCallback ==
  /\ \A t \in Threads : InCallback(t) => lockOwner = t
  /\ \A t \in Threads : ~InCallback(t) => lockOwner # t
  /\ (\A t \in Threads : ~InCallback(t)) => lockOwner = 0

C6_Witness ==
  \E t \in Threads :
    /\ driverStatus = "ABORTED"
    /\ pc[t] = "marshal"
    /\ lockOwner = t
    /\ \A u \in Threads \ {t} : pc[u] = "idle"

\* C7: the pending failure of a callback is printed exactly once and then
\* cleared: no thread leaves a callback with the error indicator set, a
\* callback prints at most once, it has printed once past the cleanup test
\* exactly when a failure was raised, and the indicator is never found
\* cleared without the print. This covers registered with several
\* arguments failing to marshal.
C7_FailureReportedOnceThenCleared ==
  \A t \in Threads :
    /\ pc[t] \in {"idle", "lock", "exit"} => ~pending[t]
    /\ reported[t] <= 1
    /\ pc[t] \in {"abort", "release", "exit"} =>
         reported[t] = IF FailureRaised(t) THEN 1 ELSE 0
    /\ (InCallback(t) /\ FailureRaised(t) /\ ~pending[t]) => reported[t] = 1

C7_Witness ==
  \E t \in Threads :
    /\ pc[t] = "exit"
    /\ ev[t] = "registered"
    /\ local[t]["executorInfoObj"] = "NULL"
    /\ local[t]["frameworkInfoObj"] = "NULL"
    /\ reported[t] = 1
    /\ ~pending[t]

\* C8: abort() is only called once the pending failure has been printed:
\* at the abort() call, and after it, the error indicator is clear and the
\* callback has printed once.
C8_PrintedBeforeAbort ==
  \A t \in Threads :
    /\ pc[t] = "abort" => (~pending[t] /\ reported[t] = 1)
    /\ aborts[t] > 0 => (~pending[t] /\ reported[t] = 1)

C8_Witness ==
  \E t \in Threads :
    /\ pc[t] = "abort"
    /\ ev[t] = "frameworkMessage"
    /\ outcome[t] = "raises"
    /\ reported[t] = 1
    /\ ~pending[t]

\* C9 as stated: at the moment abort() is called, no object of that call
\* is still held.
C9_AbortAfterRelease ==
  \A t \in Threads : pc[t] = "abort" => HeldBy(t) = {}

\* C9 as amended: abort() is called inside the same callback, with the lock
\* held, before the per-call objects are released: at the abort() call
\* every object the call created is still held, and all of them have been
\* released when the callback is about to return.
C9_AbortBeforeRelease ==
  \A t \in Threads :
    /\ pc[t] = "abort" => (HeldBy(t) = Created(t) /\ ev[t] # "error")
    /\ aborts[t] > 0 => (lockOwner = t /\ pc[t] \in {"release", "exit"})
    /\ (pc[t] = "release" /\ aborts[t] > 0) => HeldBy(t) = Created(t)
    /\ pc[t] = "exit" => HeldBy(t) = {}

C9_Witness ==
  \E t \in Threads :
    /\ pc[t] = "abort"
    /\ ev[t] = "killTask"
    /\ outcome[t] = "raises"
    /\ HeldBy(t) = {<<t, "taskIdObj">>}

\* C10: the handler object and the self token never change, and every
\* handler invocation of every callback receives that same self token.
C10_SelfTokenStable ==
  /\ impl = "impl"
  /\ pythonExecutor = "pythonExecutor"
  /\ selfSeen \subseteq {impl}
  /\ \A t \in Threads :
       received[t] # NoCall =>
         (received[t].self = impl /\ received[t].target = pythonExecutor)

C10_Witness ==
  \E t \in Threads :
    /\ invocations = 2
    /\ selfSeen = {impl}
    /\ pc[t] = "handler"
    /\ received[t].method = "error"
    /\ received[t].self = impl

----------------------------------------------------------------------------
\* The event table: for each event, the kinds of the marshalled arguments
\* the handler is to receive after the self token, in order, and whether a
\* byte payload follows.
EventTable(e) ==
  CASE e = "registered"   -> <<"ExecutorInfo", "FrameworkInfo", "SlaveInfo">>
    [] e = "reregistered" -> <<"SlaveInfo">>
    [] e = "launchTask"   -> <<"TaskInfo">>
    [] e = "killTask"     -> <<"TaskID">>
    [] OTHER              -> <<>>

TakesBytes(e) == e \in {"frameworkMessage", "error"}

\* The argument tuple's shape the table asks for: self, the objects, the bytes.
TableShape(e) ==
  <<"O">> \o [i \in 1..Len(EventTable(e)) |-> "O"]
          \o (IF TakesBytes(e) THEN <<"s#">> ELSE <<>>)

\* C11: whenever a handler method is invoked, it is the method named after
\* the event, on the handler object, and it receives the self token first,
\* then the marshalled arguments of the event table in the table's order
\* (a byte payload for frameworkMessage and error, nothing more for
\* disconnected and shutdown).
C11_MethodAndArgumentOrder ==
  \A t \in Threads :
    received[t] # NoCall =>
      /\ received[t].method = ev[t]
      /\ received[t].self = impl
      /\ received[t].fmt = TableShape(ev[t])
      /\ received[t].objs = EventTable(ev[t])
      /\ ~TakesBytes(ev[t]) => received[t].bytes = <<>>

C11_Witness ==
  \E t \in Threads :
    /\ pc[t] = "handler"
    /\ received[t].method = "registered"
    /\ received[t].self = impl
    /\ received[t].objs = <<"ExecutorInfo", "FrameworkInfo", "SlaveInfo">>

\* C12: in frameworkMessage and error the bytes the handler receives are
\* the native payload, byte for byte and of the same length, zero bytes
\* included.
C12_PayloadDeliveredExactly ==
  \A t \in Threads :
    (received[t] # NoCall /\ ev[t] \in {"frameworkMessage", "error"}) =>
      /\ Len(received[t].bytes) = Len(data[t])
      /\ \A i \in 1..Len(data[t]) : received[t].bytes[i] = data[t][i]

C12_Witness ==
  \E t \in Threads :
    /\ pc[t] = "handler"
    /\ ev[t] = "frameworkMessage"
    /\ data[t] = <<65, 0, 65>>
    /\ received[t].bytes = <<65, 0, 65>>

\* C13: a callback calls the handler at most once (no retry), every way
\* the marshalling and the handler call can end leads on to the cleanup
\* and the end of the body, and, the marshaller and the handler returning,
\* every callback that entered its body returns to the driver with the
\* lock released.
C13_EveryCallbackReturns ==
  /\ [](\A t \in Threads : calls[t] <= 1 /\ reported[t] <= 1 /\ aborts[t] <= 1)
  /\ \A t \in Threads : InCallback(t) ~> (pc[t] = "idle" /\ lockOwner # t)

C13_Witness ==
  \E t \in Threads :
    /\ pc[t] = "exit"
    /\ ev[t] = "launchTask"
    /\ local[t]["taskObj"] = "NULL"
    /\ aborts[t] = 1
    /\ lockOwner = t
    /\ ENABLED Return(t)

\* C14: in registered the marshalling stops at the first failure: once the
\* ExecutorInfo fails, createPythonProtobuf is called for nothing else, and
\* once the FrameworkInfo fails it is not called for the SlaveInfo.
C14_MarshalShortCircuits ==
  \A t \in Threads :
    (ev[t] = "registered" /\ pc[t] \notin {"idle", "lock", "marshal"}) =>
      /\ local[t]["executorInfoObj"] = "NULL" =>
           attempted[t] = <<"ExecutorInfo">>
      /\ (local[t]["executorInfoObj"] # "NULL" /\ local[t]["frameworkInfoObj"] = "NULL") =>
           attempted[t] = <<"ExecutorInfo", "FrameworkInfo">>

C16_SuccessContinues ==
  \A t \in Threads :
    (~MarshalFailed(t) /\ outcome[t] = "ok") =>
      /\ pc[t] # "abort"
      /\ aborts[t] = 0
      /\ reported[t] = 0
      /\ ~cerrLog[t]
      /\ ~pending[t]
      /\ calls[t] = 1
      /\ received[t] # NoCall

C16_Witness ==
  \E t \in Threads :
    /\ pc[t] = "exit"
    /\ ev[t] = "reregistered"
    /\ outcome[t] = "ok"
    /\ local[t]["slaveInfoObj"] # "NULL"
    /\ aborts[t] = 0
    /\ reported[t] = 0
    /\ calls[t] = 1

\* C17: the bridge keeps nothing from one callback to the next and enforces
\* no order: an idle thread carries no per-call state and can be given any
\* of the eight callbacks whatever ran before, a callback that reached its
\* handler call can invoke the handler even after an earlier abort, and
\* whether a callback aborts is decided by its own marshalling and handler
\* outcome alone.
C17_NoOrderingEnforced ==
  \A t \in Threads :
    /\ pc[t] = "idle" =>
         /\ \A e \in Events : ENABLED Enter(t, e)
         /\ ev[t] = "none" /\ local[t] = NullLocals /\ received[t] = NoCall
         /\ calls[t] = 0 /\ reported[t] = 0 /\ aborts[t] = 0
         /\ ~pending[t] /\ HeldBy(t) = {}
    /\ (pc[t] = "lock" /\ lockOwner = 0) => ENABLED Acquire(t)
    /\ pc[t] = "call" => ENABLED (CallMethod(t) /\ pc'[t] = "handler")
    /\ pc[t] \in {"release", "exit"} =>
         aborts[t] = IF FailureRaised(t) /\ ev[t] # "error" THEN 1 ELSE 0

C17_Witness ==
  \E t \in Threads :
    /\ driverStatus = "ABORTED"
    /\ invocations = 1
    /\ pc[t] = "handler"
    /\ ev[t] = "launchTask"
    /\ received[t].method = "launchTask"

\* C18: from the cleanup label to the end of the body, and so at the
\* abort() call and after it, the thread holds the lock and no other thread
\* is inside a callback body; the lock is given up only by the step that
\* ends the callback, with the failure printed and every per-call object
\* released.
C18_AbortUnderLock ==
  /\ [](\A t \in Threads :
         (pc[t] \in {"cleanup", "abort", "release", "exit"} \/ aborts[t] > 0) =>
           (lockOwner = t /\ \A u \in Threads \ {t} : ~InCallback(u)))
  /\ [][\A t \in Threads :
          (lockOwner = t /\ lockOwner' # t) =>
            (pc[t] = "exit" /\ pc'[t] = "idle" /\ HeldBy(t) = {} /\ ~pending[t])]_vars

C18_Witness ==
  \E t, u \in Threads :
    /\ t # u
    /\ pc[t] = "abort"
    /\ ev[t] = "registered"
    /\ lockOwner = t
    /\ pc[u] = "lock"

\* C19: in every callback but error, abort() is called exactly when an
\* exception is pending at the cleanup label, which is exactly when one was
\* raised during the callback: a handler that returns a result and leaves
\* an exception set still aborts, and no path calls abort() twice.
C19_AbortIffPendingAtCleanup ==
  \A t \in Threads :
    ev[t] \in Events \ {"error"} =>
      /\ aborts[t] <= 1
      /\ pc[t] = "cleanup" => (pending[t] <=> FailureRaised(t))
      /\ pc[t] = "abort" => (FailureRaised(t) /\ aborts[t] = 0)
      /\ pc[t] \in {"release", "exit"} =>
           aborts[t] = IF FailureRaised(t) THEN 1 ELSE 0

C19_Witness ==
  \E t \in Threads :
    /\ pc[t] = "exit"
    /\ ev[t] = "killTask"
    /\ outcome[t] = "resultWithError"
    /\ local[t]["res"] # "NULL"
    /\ aborts[t] = 1

====
